---------------------------- MODULE Spec2Model ----------------------------
(***************************************************************************)
(* Expense tracker REST backend (src/fullCode.js): the User / Category /   *)
(* Expense collections, the route handlers that read and write them, and   *)
(* the aggregate reports.  Every awaited store operation of a handler is   *)
(* one step; a handler with one store operation is one action.             *)
(***************************************************************************)
EXTENDS Integers, Sequences, FiniteSets, TLC

(* ------------------------------ bounds --------------------------------- *)
\* categories ever created through POST /api/categories
MaxCustom == 1
\* expenses ever created through POST /api/expenses
MaxExpenses == 1
\* runs of the development seed-data endpoint
MaxSeeds == 1
\* expenses in a store the reports are computed over
MaxReportExpenses == 2
\* expenses in a store that is listed
MaxListExpenses == 3
\* clock ticks in one calendar day
TicksPerDay == 2
\* days in one calendar month (months are taken to be equally long)
DaysPerMonth == 1
\* largest offset, in ticks, of the server's local time ahead of UTC
MaxTzOffset == 1

(* --------------------------- program constants -------------------------- *)
\* months = ['Jan', ..., 'Dec']
MonthsPerYear == 12
\* .limit(5) of the dashboard's recent expenses
RecentLimit == 5
\* page = 1, limit = 10 defaults of GET /api/expenses
DefaultPage == 1
DefaultLimit == 10
\* period = '30' default of GET /api/reports/trends
DefaultPeriod == 30

months == << "Jan", "Feb", "Mar", "Apr", "May", "Jun",
             "Jul", "Aug", "Sep", "Oct", "Nov", "Dec" >>

defaultCategories ==
    << [name |-> "Food & Dining"],  [name |-> "Transportation"],
       [name |-> "Shopping"],       [name |-> "Entertainment"],
       [name |-> "Bills & Utilities"], [name |-> "Healthcare"],
       [name |-> "Education"],      [name |-> "Other"] >>

(* ------------------------------ identifiers ----------------------------- *)
\* ObjectIds: the collection and the position in its insertion order
UserId(n) == << "user", n >>
CatId(n) == << "cat", n >>
ExpId(n) == << "exp", n >>
NoId == << "none", 0 >>
\* well-formed ObjectIds that name no document
MissingCat == CatId(0)
MissingExp == ExpId(0)
\* a string that is no ObjectId: casting it in a query filter throws CastError
MalformedId == << "bad", 0 >>
\* the query string category[$exists]=true: the filter { $exists: true }
AnyCat == << "$exists", 1 >>

(* ------------------------------- calendar ------------------------------- *)
\* a Date is an instant: ticks since the start of UTC year 0
TicksPerMonth == TicksPerDay * DaysPerMonth
TicksPerYear == TicksPerMonth * MonthsPerYear
NoDate == 0 - 1
NoYear == 0 - 1
NoPeriod == 0 - 1

\* request slots; the sequential specification uses the first only
Procs == { "p1", "p2" }

VARIABLES
    users,       \* User collection: _id -> document
    categories,  \* Category collection: _id -> document
    expenses,    \* Expense collection: _id -> document
    counters,    \* documents ever inserted, per collection
    req,         \* per slot: the request being handled, between two awaits
    resp,        \* the response sent by the last step (NoResp: none)
    now,         \* the server clock (an instant)
    tz           \* the server's local time is UTC + tz ticks

vars == << users, categories, expenses, counters, req, resp, now, tz >>
store == << users, categories, expenses, counters >>

(* ------------------------------ Date --------------------------------- *)
\* new Date(year, monthIndex, 1): local midnight, as an instant
LocalDate(year, monthIndex) == year * TicksPerYear + monthIndex * TicksPerMonth - tz
\* Date.prototype.getFullYear / getMonth: fields of the local time
getFullYear(t) == (t + tz) \div TicksPerYear
getMonth(t) == ((t + tz) % TicksPerYear) \div TicksPerMonth
\* the aggregation operator $month: 1..12, of the UTC time
UtcMonth(t) == ((t % TicksPerYear) \div TicksPerMonth) + 1

(* ------------------------------ requests -------------------------------- *)
\* a request body's amount: absent, a number, or text that is no number
NoAmount == [kind |-> "absent", val |-> 0]
Num(n) == [kind |-> "num", val |-> n]
TextAmount == [kind |-> "text", val |-> 0]
\* express-validator isNumeric()
isNumeric(a) == a.kind = "num"

\* GET /api/expenses query string; the defaults of the destructuring
NoSearch == ""
NoQuery == [category |-> NoId, startDate |-> NoDate, endDate |-> NoDate,
            search |-> NoSearch, sortBy |-> "date", sortOrder |-> "desc",
            page |-> DefaultPage, limit |-> DefaultLimit]

Idle == [op |-> "idle", pc |-> "idle", caller |-> NoId, id |-> NoId,
         name |-> "", email |-> "", amount |-> NoAmount, category |-> NoId,
         date |-> NoDate, q |-> NoQuery, acc |-> << >>, userId |-> NoId]

\* a response, with the request it answers: the handler, the caller, the
\* :id of the path (or the _id created) and the body's name or category
Resp(op, caller, id, arg, status, msg, out) ==
    [op |-> op, caller |-> caller, id |-> id, arg |-> arg, status |-> status,
     msg |-> msg, out |-> out]
NoResp == Resp("none", NoId, NoId, NoId, 0, "", << >>)

(* --------------------------- store queries ------------------------------ *)
\* String setter lowercase: true (emails differ in the case of one letter)
Lower(s) == IF s = "A@x" THEN "a@x" ELSE s

\* the filter without its userId condition
OwnedInAnyUser(coll, id, u) == id \in DOMAIN coll

\* Model.findOne({ _id: id, userId: u }): the document or none
OwnedIn(coll, id, u) == id \in DOMAIN coll /\ coll[id].userId = u

\* the documents of a collection, whoever owns them
OwnedByAnyUser(coll, u) == DOMAIN coll

\* the documents of a collection matching { userId: u }
OwnedBy(coll, u) == { d \in DOMAIN coll : coll[d].userId = u }

\* a collection with no document
Empty == [d \in {} |-> 0]

\* a document as a query returns it
Doc(coll, id) == [_id |-> id, doc |-> coll[id]]

\* restriction of a collection to the documents outside S (deleteMany / delete)
Without(coll, S) == [d \in DOMAIN coll \ S |-> coll[d]]

\* a collection with document d inserted at _id id
With(coll, id, d) == [x \in DOMAIN coll \cup {id} |-> IF x = id THEN d ELSE coll[x]]

(* ------------------------------ inputs ---------------------------------- *)
\* request inputs are drawn from these sets
UsernameInputs == { "ann", "bob" }
EmailInputs == { "a@x", "A@x", "b@x" }
\* category names a client sends: a new one and a seeded one; "" is empty
NameInputs == { "Travel", defaultCategories[1].name }
NoName == "undefined"
\* the categories a client names: those it sees under one of NameInputs
ProbeCats == { c \in DOMAIN categories : categories[c].name \in NameInputs }
                \cup { MissingCat }
\* req.body.category: one of those, a string that is no id, or absent
BodyCats == ProbeCats \cup { MalformedId, NoId }
ProbeExps == DOMAIN expenses \cup { MissingExp }
(* --------------------------- auth middleware ---------------------------- *)
\* a user id that names no user document
GhostUser == UserId(0)

\* what a request carries as its credential: nothing, or a token in the
\* Authorization header or in a cookie; a token verifies (and decodes to an
\* id) or does not (malformed, wrongly signed, expired)
NoToken == [via |-> "none", verifies |-> FALSE, id |-> NoId]
Token(via, id) == [via |-> via, verifies |-> TRUE, id |-> id]
BadToken(via) == [via |-> via, verifies |-> FALSE, id |-> NoId]
Credentials ==
    { NoToken, BadToken("header"), BadToken("cookie") }
        \cup { Token(via, id) : via \in { "header", "cookie" },
                                 id \in DOMAIN users \cup { GhostUser } }

\* req.header('Authorization')?.replace('Bearer ', '') || req.cookies?.token:
\* no middleware fills req.cookies, so only the header yields a token
tokenOf(cred) == IF cred.via = "header" THEN cred ELSE NoToken

\* auth without User.findById: the decoded id is taken as the user
authNoLookup(cred) ==
    IF tokenOf(cred).verifies THEN tokenOf(cred).id ELSE NoId

\* auth: the user the credential resolves to (req.user), or NoId when the
\* middleware answers 401
auth(cred) ==
    IF tokenOf(cred).verifies /\ tokenOf(cred).id \in DOMAIN users
    THEN tokenOf(cred).id
    ELSE NoId

\* the callers the handlers run for: req.user of a request auth lets through
Callers == { auth(cred) : cred \in Credentials } \ { NoId }

\* the routes mounted behind auth
ProtectedRoutes ==
    { "profile.get", "profile.update",
      "category.list", "category.create", "category.update", "category.delete",
      "expense.list", "expense.get", "expense.create", "expense.update", "expense.delete",
      "reports.dashboard", "reports.monthly-chart", "reports.trends",
      "seed", "clear", "stats" }

InFlight(op) == { q \in Procs : req[q].op = op }

Send(p, r) ==
    /\ req' = [req EXCEPT ![p] = Idle]
    /\ resp' = r

Await(p, r) ==
    /\ req' = [req EXCEPT ![p] = r]
    /\ resp' = NoResp

\* auth answering 401 for a request to a protected route: no token, a token
\* jwt.verify rejects, or a token whose id names no user
AuthReject(p, route, cred) ==
    /\ req[p].op = "idle"
    /\ auth(cred) = NoId
    /\ UNCHANGED << store, now, tz >>
    /\ Send(p, Resp("auth", NoId, NoId, cred, 401,
                    IF tokenOf(cred).via = "none" THEN "Access denied. No token provided."
                    ELSE "Invalid token.",
                    << route >>))

(* ------------------------- POST /api/auth/register ---------------------- *)
\* User.findOne({ $or: [{ email }, { username }] })
existingUser(username, email) ==
    \E u \in DOMAIN users :
        users[u].email = Lower(email) \/ users[u].username = username

\* no unique index
duplicateKeyNever(username, email) == FALSE

\* userSchema username / email unique: true: the insert of a second document
\* with the same username or the same (lowercased) email fails, E11000
duplicateKey(username, email) ==
    \E u \in DOMAIN users :
        users[u].email = Lower(email) \/ users[u].username = username

\* validation, then the existing-user check
RegisterStart(p, valid, username, email, monthlyBudget) ==
    /\ req[p].op = "idle"
    /\ UNCHANGED << store, now, tz >>
    /\ IF ~valid
       THEN Send(p, Resp("register", NoId, NoId, NoId, 400, "errors", << >>))
       ELSE IF existingUser(username, email)
       THEN Send(p, Resp("register", NoId, NoId, NoId, 400,
                         "User already exists with this email or username", << >>))
       ELSE Await(p, [Idle EXCEPT !.op = "register", !.pc = "create",
                                  !.name = username, !.email = email,
                                  !.amount = monthlyBudget])

\* User.create({ ..., monthlyBudget: monthlyBudget || 0 }): a budget that is
\* no number fails the cast, and the unique indexes reject a duplicate
RegisterCreateUser(p) ==
    /\ req[p].op = "register" /\ req[p].pc = "create"
    /\ UNCHANGED << categories, expenses, now, tz >>
    /\ IF req[p].amount.kind = "text" \/ duplicateKey(req[p].name, req[p].email)
       THEN /\ Send(p, Resp("register", NoId, NoId, NoId, 500,
                            "Server error during registration", << >>))
            /\ UNCHANGED << users, counters >>
       ELSE LET uid == UserId(counters.user + 1) IN
            /\ users' = With(users, uid, [username |-> req[p].name,
                                          email |-> Lower(req[p].email),
                                          monthlyBudget |->
                                              IF req[p].amount.kind = "num"
                                              THEN req[p].amount.val ELSE 0])
            /\ counters' = [counters EXCEPT !.user = @ + 1]
            /\ Await(p, [req[p] EXCEPT !.pc = "seed", !.id = uid])

\* the seeding with the last of the k entries left out
SeedCategoriesShort(uid, k) ==
    [c \in DOMAIN categories \cup { CatId(counters.cat + i) : i \in 1..(k - 1) } |->
        IF c \in DOMAIN categories THEN categories[c]
        ELSE [name |-> defaultCategories[c[2] - counters.cat].name,
              userId |-> uid, isDefault |-> TRUE]]

\* the first k entries of defaultCategories inserted for user uid
SeedCategories(uid, k) ==
    [c \in DOMAIN categories \cup { CatId(counters.cat + i) : i \in 1..k } |->
        IF c \in DOMAIN categories THEN categories[c]
        ELSE [name |-> defaultCategories[c[2] - counters.cat].name,
              userId |-> uid, isDefault |-> TRUE]]

\* Category.insertMany(categories), then the 201 response
RegisterSeed(p) ==
    /\ req[p].op = "register" /\ req[p].pc = "seed"
    /\ categories' = SeedCategories(req[p].id, Len(defaultCategories))
    /\ counters' = [counters EXCEPT !.cat = @ + Len(defaultCategories)]
    /\ Send(p, Resp("register", NoId, req[p].id, NoId, 201,
                    "User registered successfully", << >>))
    /\ UNCHANGED << users, expenses, now, tz >>

\* Category.insertMany rejects (a store error) after k documents: the catch
RegisterSeedFail(p, k) ==
    /\ req[p].op = "register" /\ req[p].pc = "seed"
    /\ categories' = SeedCategories(req[p].id, k)
    /\ counters' = [counters EXCEPT !.cat = @ + k]
    /\ Send(p, Resp("register", NoId, req[p].id, NoId, 500,
                    "Server error during registration", << >>))
    /\ UNCHANGED << users, expenses, now, tz >>

(* -------------------------- PUT /api/auth/profile ----------------------- *)
\* the validators (monthlyBudget optional, isNumeric), then
\* User.findByIdAndUpdate(req.user._id, updateData, { runValidators: true })
ProfileUpdate(p, u, monthlyBudget) ==
    /\ req[p].op = "idle"
    /\ UNCHANGED << categories, expenses, counters, now, tz >>
    /\ IF monthlyBudget # NoAmount /\ ~isNumeric(monthlyBudget)
       THEN /\ UNCHANGED users
            /\ Send(p, Resp("profile.update", u, NoId, NoId, 400, "errors", << >>))
       ELSE /\ users' = [users EXCEPT ![u].monthlyBudget =
                             IF monthlyBudget = NoAmount THEN @ ELSE monthlyBudget.val]
            /\ Send(p, Resp("profile.update", u, NoId, NoId, 200,
                            "Profile updated successfully", << >>))

(* ------------------------- signup (src/nodeTask.js) --------------------- *)
\* the field checks, then User.findOne({ Email }): the User schema has no
\* path Email, so the filter matches no document
SignupStart(p, complete) ==
    /\ req[p].op = "idle"
    /\ UNCHANGED << store, now, tz >>
    /\ IF ~complete
       THEN Send(p, Resp("signup", NoId, NoId, NoId, 400, "All fields are required", << >>))
       ELSE Await(p, [Idle EXCEPT !.op = "signup", !.pc = "create"])

\* User.create({ Email, Password, FullName, username }): the schema drops the
\* paths it does not have and its required email, password and fullName are
\* missing, so the create is rejected into the catch
SignupCreate(p) ==
    /\ req[p].op = "signup" /\ req[p].pc = "create"
    /\ UNCHANGED << store, now, tz >>
    /\ Send(p, Resp("signup", NoId, NoId, NoId, 500,
                    "Internal server error during signup", << >>))

(* ------------------------- owner of a created document ------------------ *)
\* the owner taken from the body's userId when it has one
userIdFromBody(caller, bodyUserId) == IF bodyUserId = NoId THEN caller ELSE bodyUserId

\* Model.create({ ..., userId: req.user._id }): req.body.userId is not read
userIdOfCreated(caller, bodyUserId) == caller

(* ----------------------------- /api/categories -------------------------- *)
RECURSIVE DescById(_)
\* the ids of S, largest insertion position first (sort({ createdAt: -1 }))
DescById(S) ==
    IF S = {} THEN << >>
    ELSE LET m == CHOOSE x \in S : \A y \in S : y[2] <= x[2]
         IN << m >> \o DescById(S \ {m})

\* GET /: Category.find({ userId }).sort({ createdAt: -1 })
CategoryList(p, u) ==
    /\ req[p].op = "idle"
    /\ Send(p, Resp("category.list", u, NoId, NoId, 200, "",
                    LET ids == DescById(OwnedBy(categories, u))
                    IN [i \in 1..Len(ids) |-> Doc(categories, ids[i])]))
    /\ UNCHANGED << store, now, tz >>

\* the same-name check without its userId condition
existingCategoryAnyUser(name, u) ==
    \E c \in DOMAIN categories : categories[c].name = name

\* Category.findOne({ name, userId })
existingCategory(name, u) ==
    \E c \in DOMAIN categories :
        categories[c].name = name /\ categories[c].userId = u

\* POST /: validation, then the same-name check
CategoryCreateStartBody(p, u, name, userId) ==
    /\ req[p].op = "idle"
    /\ UNCHANGED << store, now, tz >>
    /\ IF name = ""
       THEN Send(p, Resp("category.create", u, NoId, name, 400, "errors", << >>))
       ELSE IF existingCategory(name, u)
       THEN Send(p, Resp("category.create", u, NoId, name, 400,
                         "Category with this name already exists", << >>))
       ELSE /\ counters.custom + Cardinality(InFlight("category.create")) < MaxCustom
            /\ Await(p, [Idle EXCEPT !.op = "category.create", !.pc = "insert",
                                     !.caller = u, !.name = name, !.userId = userId])

\* POST / with a body that has no userId field
CategoryCreateStart(p, u, name) == CategoryCreateStartBody(p, u, name, NoId)

\* POST /: Category.create({ name, ..., userId })
CategoryCreateInsert(p) ==
    /\ req[p].op = "category.create" /\ req[p].pc = "insert"
    /\ LET cid == CatId(counters.cat + 1) IN
       /\ categories' = With(categories, cid,
                             [name |-> req[p].name,
                              userId |-> userIdOfCreated(req[p].caller, req[p].userId),
                              isDefault |-> FALSE])
       /\ Send(p, Resp("category.create", req[p].caller, cid, req[p].name, 201,
                       "Category created successfully", << >>))
    /\ counters' = [counters EXCEPT !.cat = @ + 1, !.custom = @ + 1]
    /\ UNCHANGED << users, expenses, now, tz >>

\* PUT /:id: Category.findOneAndUpdate({ _id, userId }, { name, ... },
\* { runValidators }): name is required, so an empty name is rejected before
\* the update is sent, and so is an :id that cannot be cast to an ObjectId;
\* an undefined name is left out of the update
CategoryUpdate(p, u, id, name) ==
    /\ req[p].op = "idle"
    /\ UNCHANGED << users, expenses, counters, now, tz >>
    /\ IF name = "" \/ id = MalformedId
       THEN /\ UNCHANGED categories
            /\ Send(p, Resp("category.update", u, id, NoId, 500, "Server error", << >>))
       ELSE IF OwnedIn(categories, id, u)
       THEN /\ categories' = [categories EXCEPT ![id].name =
                                 IF name = NoName THEN @ ELSE name]
            /\ Send(p, Resp("category.update", u, id, NoId, 200,
                            "Category updated successfully", << >>))
       ELSE /\ UNCHANGED categories
            /\ Send(p, Resp("category.update", u, id, NoId, 404,
                            "Category not found", << >>))

\* the delete without the isDefault: false condition of its filter
CategoryDeleteAnyOwned(p, u, id) ==
    /\ req[p].op = "idle"
    /\ UNCHANGED << users, expenses, counters, now, tz >>
    /\ IF OwnedIn(categories, id, u)
       THEN /\ categories' = Without(categories, {id})
            /\ Send(p, Resp("category.delete", u, id, NoId, 200,
                            "Category deleted successfully", << >>))
       ELSE /\ UNCHANGED categories
            /\ Send(p, Resp("category.delete", u, id, NoId, 404,
                            "Category not found or is a default category", << >>))

\* DELETE /:id: Category.findOneAndDelete({ _id, userId, isDefault: false })
CategoryDelete(p, u, id) ==
    /\ req[p].op = "idle"
    /\ UNCHANGED << users, expenses, counters, now, tz >>
    /\ IF OwnedIn(categories, id, u) /\ ~categories[id].isDefault
       THEN /\ categories' = Without(categories, {id})
            /\ Send(p, Resp("category.delete", u, id, NoId, 200,
                            "Category deleted successfully", << >>))
       ELSE /\ UNCHANGED categories
            /\ Send(p, Resp("category.delete", u, id, NoId, 404,
                            "Category not found or is a default category", << >>))

(* ------------------------------ /api/expenses --------------------------- *)
CreateAmountInputs == { TextAmount, Num(0 - 5), Num(100) }
UpdateAmountInputs == { NoAmount, TextAmount, Num(0 - 5), Num(300) }
TitleInputs == { "", "Lunch" }

\* no validator on the amount
minNone(val) == TRUE

\* expenseSchema amount: { min: 0 }
min(val) == val >= 0

\* POST /: the validators, then Category.findOne({ _id: category, userId }),
\* which throws into the catch when category cannot be cast to an ObjectId
ExpenseCreateStartBody(p, u, title, amount, category, date, userId) ==
    /\ req[p].op = "idle"
    /\ UNCHANGED << store, now, tz >>
    /\ IF title = "" \/ ~isNumeric(amount) \/ category = NoId
       THEN Send(p, Resp("expense.create", u, NoId, category, 400, "errors", << >>))
       ELSE IF category = MalformedId
       THEN Send(p, Resp("expense.create", u, NoId, category, 500, "Server error", << >>))
       ELSE IF ~OwnedIn(categories, category, u)
       THEN Send(p, Resp("expense.create", u, NoId, category, 400, "Invalid category", << >>))
       ELSE /\ counters.exp + Cardinality(InFlight("expense.create")) < MaxExpenses
            /\ Await(p, [Idle EXCEPT !.op = "expense.create", !.pc = "insert",
                                     !.caller = u, !.name = title, !.amount = amount,
                                     !.category = category, !.date = date,
                                     !.userId = userId])

\* POST / with a body that has no userId field
ExpenseCreateStart(p, u, title, amount, category, date) ==
    ExpenseCreateStartBody(p, u, title, amount, category, date, NoId)

\* an insert that looks the category up again and refuses when it is gone
ExpenseCreateInsertChecked(p) ==
    /\ req[p].op = "expense.create" /\ req[p].pc = "insert"
    /\ UNCHANGED << users, categories, now, tz >>
    /\ IF ~OwnedIn(categories, req[p].category, req[p].caller)
       THEN /\ Send(p, Resp("expense.create", req[p].caller, NoId, req[p].category,
                            400, "Invalid category", << >>))
            /\ UNCHANGED << expenses, counters >>
       ELSE LET eid == ExpId(counters.exp + 1) IN
            /\ expenses' = With(expenses, eid,
                                [title |-> req[p].name,
                                 amount |-> req[p].amount.val,
                                 category |-> req[p].category,
                                 userId |-> userIdOfCreated(req[p].caller, req[p].userId),
                                 date |-> IF req[p].date = NoDate THEN now
                                          ELSE req[p].date])
            /\ counters' = [counters EXCEPT !.exp = @ + 1]
            /\ Send(p, Resp("expense.create", req[p].caller, eid, req[p].category,
                            201, "Expense created successfully", << eid >>))

\* POST /: Expense.create (schema: amount min 0; date defaults to now), then
\* the read of the created document for the 201 response
ExpenseCreateInsert(p) ==
    /\ req[p].op = "expense.create" /\ req[p].pc = "insert"
    /\ UNCHANGED << users, categories, now, tz >>
    /\ IF ~min(req[p].amount.val)
       THEN /\ Send(p, Resp("expense.create", req[p].caller, NoId, req[p].category,
                            500, "Server error", << >>))
            /\ UNCHANGED << expenses, counters >>
       ELSE LET eid == ExpId(counters.exp + 1) IN
            /\ expenses' = With(expenses, eid,
                                [title |-> req[p].name,
                                 amount |-> req[p].amount.val,
                                 category |-> req[p].category,
                                 userId |-> userIdOfCreated(req[p].caller, req[p].userId),
                                 date |-> IF req[p].date = NoDate THEN now
                                          ELSE req[p].date])
            /\ counters' = [counters EXCEPT !.exp = @ + 1]
            /\ Send(p, Resp("expense.create", req[p].caller, eid, req[p].category,
                            201, "Expense created successfully", << eid >>))

\* GET /:id: Expense.findOne({ _id, userId })
ExpenseGet(p, u, id) ==
    /\ req[p].op = "idle"
    /\ UNCHANGED << store, now, tz >>
    /\ IF OwnedIn(expenses, id, u)
       THEN Send(p, Resp("expense.get", u, id, NoId, 200, "", << Doc(expenses, id) >>))
       ELSE Send(p, Resp("expense.get", u, id, NoId, 404, "Expense not found", << >>))

\* PUT /:id: if (category) Category.findOne({ _id: category, userId }),
\* which throws into the catch when category cannot be cast to an ObjectId
ExpenseUpdateStart(p, u, id, amount, category, date) ==
    /\ req[p].op = "idle"
    /\ UNCHANGED << store, now, tz >>
    /\ IF category = MalformedId
       THEN Send(p, Resp("expense.update", u, id, category, 500, "Server error", << >>))
       ELSE IF category # NoId /\ ~OwnedIn(categories, category, u)
       THEN Send(p, Resp("expense.update", u, id, category, 400, "Invalid category", << >>))
       ELSE Await(p, [Idle EXCEPT !.op = "expense.update", !.pc = "update",
                                  !.caller = u, !.id = id, !.amount = amount,
                                  !.category = category, !.date = date])

\* the update document { amount, category, date } applied; undefined keys skipped
Patched(e, amount, category, date) ==
    [e EXCEPT !.amount = IF amount.kind = "num" THEN amount.val ELSE @,
              !.category = IF category # NoId THEN category ELSE @,
              !.date = IF date # NoDate THEN date ELSE @]

\* PUT /:id: Expense.findOneAndUpdate({ _id, userId }, {...}, { runValidators })
\* the update is cast and validated (amount: Number, min 0) before it is sent
ExpenseUpdateApply(p) ==
    /\ req[p].op = "expense.update" /\ req[p].pc = "update"
    /\ UNCHANGED << users, categories, counters, now, tz >>
    /\ LET u == req[p].caller
           id == req[p].id
       IN IF req[p].amount.kind = "text" \/ ~min(req[p].amount.val)
          THEN /\ Send(p, Resp("expense.update", u, id, req[p].category, 500, "Server error", << >>))
               /\ UNCHANGED expenses
          ELSE IF OwnedIn(expenses, id, u)
          THEN /\ expenses' = [expenses EXCEPT ![id] =
                                  Patched(@, req[p].amount, req[p].category, req[p].date)]
               /\ Send(p, Resp("expense.update", u, id, req[p].category, 200,
                               "Expense updated successfully", << >>))
          ELSE /\ UNCHANGED expenses
               /\ Send(p, Resp("expense.update", u, id, req[p].category, 404, "Expense not found", << >>))

RECURSIVE SortBy(_, _, _)
\* the expenses S as .sort({ [sortBy]: -1 | 1 }) returns them; equal keys keep
\* the store's insertion order; a path no document has leaves that order
SortBy(S, sortBy, sortOrder) ==
    IF S = {} THEN << >>
    ELSE LET key(x) == IF sortBy = "date" THEN expenses[x].date
                       ELSE IF sortBy = "amount" THEN expenses[x].amount
                       ELSE 0
             first == CHOOSE x \in S : \A y \in S \ {x} :
                          \/ IF sortOrder = "desc" THEN key(x) > key(y)
                             ELSE key(x) < key(y)
                          \/ key(x) = key(y) /\ x[2] < y[2]
         IN << Doc(expenses, first) >> \o SortBy(S \ {first}, sortBy, sortOrder)

\* .sort({ date: -1 | 1 })
SortByDate(S, sortOrder) == SortBy(S, "date", sortOrder)

\* { $regex: search, $options: 'i' } on the titles the clients use
RegexMatch(search, text) ==
    \/ search = ".*"
    \/ search = "lunch" /\ text \in { "Lunch", "Team lunch" }

\* the query without its userId: req.user._id
MatchingAnyUser(u, q) ==
    { e \in DOMAIN expenses :
          /\ q.category \notin { NoId, AnyCat } => expenses[e].category = q.category
          /\ q.startDate # NoDate => expenses[e].date >= q.startDate
          /\ q.endDate # NoDate => expenses[e].date <= q.endDate
          /\ q.search # NoSearch => RegexMatch(q.search, expenses[e].title) }

\* the query object built from req.query, always with userId: req.user._id
Matching(u, q) ==
    { e \in OwnedBy(expenses, u) :
          /\ q.category \notin { NoId, AnyCat } => expenses[e].category = q.category
          /\ q.startDate # NoDate => expenses[e].date >= q.startDate
          /\ q.endDate # NoDate => expenses[e].date <= q.endDate
          /\ q.search # NoSearch => RegexMatch(q.search, expenses[e].title) }

\* the first page, whatever page is asked for
PageOfNoSkip(sorted, page, limit) ==
    SubSeq(sorted, 1, IF limit < Len(sorted) THEN limit ELSE Len(sorted))

\* .limit(limit).skip((page - 1) * limit) of a sorted result
PageOf(sorted, page, limit) ==
    SubSeq(sorted, (page - 1) * limit + 1,
           IF page * limit < Len(sorted) THEN page * limit ELSE Len(sorted))

\* Math.ceil(total / limit)
CeilDiv(total, limit) == (total + limit - 1) \div limit

\* GET /: Expense.find(query).sort(sort).limit(limit).skip((page - 1) * limit)
ExpenseListFind(p, u, q) ==
    /\ req[p].op = "idle"
    /\ UNCHANGED << store, now, tz >>
    /\ Await(p, [Idle EXCEPT !.op = "expense.list", !.pc = "count", !.caller = u,
                             !.q = q,
                             !.acc = PageOf(SortBy(Matching(u, q), q.sortBy, q.sortOrder),
                                            q.page, q.limit)])

\* GET /: Expense.countDocuments(query), then the response
ExpenseListCount(p) ==
    /\ req[p].op = "expense.list" /\ req[p].pc = "count"
    /\ UNCHANGED << store, now, tz >>
    /\ LET total == Cardinality(Matching(req[p].caller, req[p].q)) IN
       Send(p, Resp("expense.list", req[p].caller, NoId, req[p].q.category, 200, "",
                    [expenses |-> req[p].acc,
                     totalPages |-> CeilDiv(total, req[p].q.limit),
                     currentPage |-> req[p].q.page,
                     total |-> total]))

\* DELETE /:id: Expense.findOneAndDelete({ _id, userId })
ExpenseDelete(p, u, id) ==
    /\ req[p].op = "idle"
    /\ UNCHANGED << users, categories, counters, now, tz >>
    /\ IF OwnedIn(expenses, id, u)
       THEN /\ expenses' = Without(expenses, {id})
            /\ Send(p, Resp("expense.delete", u, id, NoId, 200,
                            "Expense deleted successfully", << >>))
       ELSE /\ UNCHANGED expenses
            /\ Send(p, Resp("expense.delete", u, id, NoId, 404, "Expense not found", << >>))

(* ------------------------- POST /api/test/seed-data --------------------- *)
\* sampleExpenses: title, amount, the category looked for, the age in days
sampleExpenses ==
    << [title |-> "Grocery Shopping", amount |-> 2500, name |-> "Food & Dining", age |-> 2],
       [title |-> "Uber Ride", amount |-> 450, name |-> "Transportation", age |-> 1],
       [title |-> "Movie Tickets", amount |-> 800, name |-> "Entertainment", age |-> 3],
       [title |-> "Electricity Bill", amount |-> 1200, name |-> "Bills & Utilities", age |-> 5],
       [title |-> "Online Shopping", amount |-> 3200, name |-> "Shopping", age |-> 7] >>

RECURSIVE NaturalOrder(_)
\* Category.find({ userId }) with no sort: the documents in insertion order
NaturalOrder(S) ==
    IF S = {} THEN << >>
    ELSE LET c == CHOOSE x \in S : \A y \in S \ {x} : x[2] < y[2]
         IN << Doc(categories, c) >> \o NaturalOrder(S \ {c})

\* categories.find(c => c.name === name)?._id || categories[k]._id; NoId
\* stands for the TypeError of reading _id of undefined
sampleCategory(found, k) ==
    LET named == { i \in DOMAIN found : found[i].doc.name = sampleExpenses[k].name }
    IN IF named # {} THEN found[CHOOSE i \in named : \A j \in named : i <= j]._id
       ELSE IF k \in DOMAIN found THEN found[k]._id
       ELSE NoId

\* POST /seed-data: Category.find({ userId }), then the sample expenses
SeedDataStart(p, u) ==
    /\ req[p].op = "idle"
    /\ UNCHANGED << store, now, tz >>
    /\ LET found == NaturalOrder(OwnedBy(categories, u))
           samples == [k \in DOMAIN sampleExpenses |->
                          [title |-> sampleExpenses[k].title,
                           amount |-> sampleExpenses[k].amount,
                           category |-> sampleCategory(found, k),
                           userId |-> u,
                           date |-> now - sampleExpenses[k].age * TicksPerDay]]
       IN IF found = << >>
          THEN Send(p, Resp("seed", u, NoId, NoId, 400,
                            "No categories found. Please create categories first.", << >>))
          ELSE IF \E k \in DOMAIN samples : samples[k].category = NoId
          THEN Send(p, Resp("seed", u, NoId, NoId, 500, "Error creating sample data", << >>))
          ELSE /\ counters.exp + Len(sampleExpenses) * (1 + Cardinality(InFlight("seed")))
                      <= MaxExpenses + MaxSeeds * Len(sampleExpenses)
               /\ Await(p, [Idle EXCEPT !.op = "seed", !.pc = "insert", !.caller = u,
                                        !.acc = samples])

\* POST /seed-data: Expense.insertMany (the schema validates each document)
SeedDataInsert(p) ==
    /\ req[p].op = "seed" /\ req[p].pc = "insert"
    /\ UNCHANGED << users, categories, now, tz >>
    /\ IF \E k \in DOMAIN req[p].acc : ~min(req[p].acc[k].amount)
       THEN /\ UNCHANGED << expenses, counters >>
            /\ Send(p, Resp("seed", req[p].caller, NoId, NoId, 500,
                            "Error creating sample data", << >>))
       ELSE /\ expenses' = [e \in DOMAIN expenses
                                   \cup { ExpId(counters.exp + k) : k \in DOMAIN req[p].acc } |->
                               IF e \in DOMAIN expenses THEN expenses[e]
                               ELSE req[p].acc[e[2] - counters.exp]]
            /\ counters' = [counters EXCEPT !.exp = @ + Len(req[p].acc)]
            /\ Send(p, Resp("seed", req[p].caller, NoId, NoId, 200,
                            "Sample data created successfully", << >>))

(* ------------------------ DELETE /api/test/clear-data ------------------- *)
\* Expense.deleteMany({ userId })
ClearExpenses(p, u) ==
    /\ req[p].op = "idle"
    /\ expenses' = Without(expenses, OwnedBy(expenses, u))
    /\ Await(p, [Idle EXCEPT !.op = "clear", !.pc = "categories", !.caller = u])
    /\ UNCHANGED << users, categories, counters, now, tz >>

\* Category.deleteMany({ userId, isDefault: false })
ClearCategories(p) ==
    /\ req[p].op = "clear" /\ req[p].pc = "categories"
    /\ categories' = Without(categories,
                             { c \in OwnedBy(categories, req[p].caller) :
                                   ~categories[c].isDefault })
    /\ Send(p, Resp("clear", req[p].caller, NoId, NoId, 200,
                    "All user data cleared successfully", << >>))
    /\ UNCHANGED << users, expenses, counters, now, tz >>

(* ------------------------------ /api/reports ---------------------------- *)
RECURSIVE SumAmount(_)
\* $sum: '$amount' over the expenses S
SumAmount(S) ==
    IF S = {} THEN 0
    ELSE LET e == CHOOSE x \in S : TRUE
         IN expenses[e].amount + SumAmount(S \ {e})

\* $group: { _id: null, total, count }: one group, or none for no document
GroupAll(S) ==
    IF S = {} THEN << >>
    ELSE << [total |-> SumAmount(S), count |-> Cardinality(S)] >>

\* the match without its date condition
SinceEver(u, start) == OwnedBy(expenses, u)

\* $match: { userId, date: { $gte: start } }
Since(u, start) == { e \in OwnedBy(expenses, u) : expenses[e].date >= start }

\* the { total, count } of the response: monthlyExpenses[0]?.total || 0
TotalCount(agg) ==
    IF agg = << >> THEN [total |-> 0, count |-> 0]
    ELSE [total |-> agg[1].total, count |-> agg[1].count]

RECURSIVE DescByTotal(_)
\* $sort: { total: -1 } of a set of groups
DescByTotal(G) ==
    IF G = {} THEN << >>
    ELSE LET g == CHOOSE x \in G : \A y \in G \ {x} :
                      x.total > y.total \/ (x.total = y.total /\ x._id[2] < y._id[2])
         IN << g >> \o DescByTotal(G \ {g})

\* $group by category, $lookup in categories, $unwind (a group whose category
\* is gone is dropped), $project, $sort
CategoryBreakdown(u, start) ==
    DescByTotal({ [_id |-> c,
                   total |-> SumAmount({ e \in Since(u, start) : expenses[e].category = c }),
                   count |-> Cardinality({ e \in Since(u, start) : expenses[e].category = c }),
                   name |-> categories[c].name] :
                  c \in { expenses[e].category : e \in Since(u, start) }
                            \cap DOMAIN categories })

\* GET /dashboard: now, startOfMonth, startOfYear; the monthly aggregate
DashboardMonthly(p, u) ==
    /\ req[p].op = "idle"
    /\ UNCHANGED << store, now, tz >>
    /\ Await(p, [Idle EXCEPT !.op = "reports.dashboard", !.pc = "yearly",
                             !.caller = u, !.date = now,
                             !.acc = << GroupAll(Since(u, LocalDate(getFullYear(now),
                                                                    getMonth(now)))) >>])

\* GET /dashboard: the yearly aggregate
DashboardYearly(p) ==
    /\ req[p].op = "reports.dashboard" /\ req[p].pc = "yearly"
    /\ UNCHANGED << store, now, tz >>
    /\ Await(p, [req[p] EXCEPT !.pc = "breakdown",
                    !.acc = Append(@, GroupAll(Since(req[p].caller,
                                 LocalDate(getFullYear(req[p].date), 0))))])

\* GET /dashboard: the category breakdown of the current month
DashboardBreakdown(p) ==
    /\ req[p].op = "reports.dashboard" /\ req[p].pc = "breakdown"
    /\ UNCHANGED << store, now, tz >>
    /\ Await(p, [req[p] EXCEPT !.pc = "recent",
                    !.acc = Append(@, CategoryBreakdown(req[p].caller,
                                 LocalDate(getFullYear(req[p].date),
                                           getMonth(req[p].date))))])

\* the remaining budget, clamped at zero
RemainingClamped(budget, total) == IF budget < total THEN 0 ELSE budget - total

\* remaining: req.user.monthlyBudget - (monthlyExpenses[0]?.total || 0)
Remaining(budget, total) == budget - total

\* GET /dashboard: the recent expenses, then the response; req.user is the
\* user document the auth middleware read
DashboardRecent(p) ==
    /\ req[p].op = "reports.dashboard" /\ req[p].pc = "recent"
    /\ UNCHANGED << store, now, tz >>
    /\ LET u == req[p].caller
           monthly == TotalCount(req[p].acc[1])
           recent == SortByDate(OwnedBy(expenses, u), "desc")
       IN Send(p, Resp("reports.dashboard", u, NoId, NoId, 200, "",
               [monthly |-> [total |-> monthly.total, count |-> monthly.count,
                             budget |-> users[u].monthlyBudget,
                             remaining |-> Remaining(users[u].monthlyBudget, monthly.total)],
                yearly |-> TotalCount(req[p].acc[2]),
                categoryBreakdown |-> req[p].acc[3],
                recentExpenses |-> SubSeq(recent, 1,
                                          IF Len(recent) < RecentLimit THEN Len(recent)
                                          ELSE RecentLimit)]))

\* the $match and $group of the monthly chart: one group per $month that has
\* an expense of u in [new Date(year, 0, 1), new Date(year + 1, 0, 1))
monthlyData(u, year) ==
    LET matched == { e \in OwnedBy(expenses, u) :
                         /\ expenses[e].date >= LocalDate(year, 0)
                         /\ expenses[e].date < LocalDate(year + 1, 0) }
        of(m) == { e \in matched : UtcMonth(expenses[e].date) = m }
    IN { [_id |-> m, total |-> SumAmount(of(m)), count |-> Cardinality(of(m))] :
             m \in { UtcMonth(expenses[e].date) : e \in matched } }

\* months.map((month, index) => ...): twelve entries, a month with no group 0
chartData(u, year) ==
    [i \in 1..Len(months) |->
        LET data == { g \in monthlyData(u, year) : g._id = i }
        IN IF data = {}
           THEN [month |-> months[i], amount |-> 0, count |-> 0]
           ELSE LET g == CHOOSE x \in data : TRUE
                IN [month |-> months[i], amount |-> g.total, count |-> g.count]]

\* GET /monthly-chart?year=: year defaults to new Date().getFullYear()
MonthlyChart(p, u, year) ==
    /\ req[p].op = "idle"
    /\ UNCHANGED << store, now, tz >>
    /\ LET y == IF year = NoYear THEN getFullYear(now) ELSE year
       IN Send(p, Resp("reports.monthly-chart", u, NoId, y, 200, "", chartData(u, y)))

\* $dateToString: { format: '%Y-%m-%d', date }: year, month and day of the
\* UTC time; the strings compare as these triples do
DateToString(t) ==
    << t \div TicksPerYear, UtcMonth(t), ((t % TicksPerMonth) \div TicksPerDay) + 1 >>

\* one '%Y-%m-%d' string sorts before another
DayBefore(a, b) ==
    \/ a[1] < b[1]
    \/ a[1] = b[1] /\ a[2] < b[2]
    \/ a[1] = b[1] /\ a[2] = b[2] /\ a[3] < b[3]

RECURSIVE AscById(_)
\* $sort: { '_id': 1 } of a set of day groups
AscById(G) ==
    IF G = {} THEN << >>
    ELSE LET g == CHOOSE x \in G : \A y \in G \ {x} : DayBefore(x._id, y._id)
         IN << g >> \o AscById(G \ {g})

\* the day groups of all the expenses of u
trendsEver(u, days) ==
    AscById({ [_id |-> d,
               total |-> SumAmount({ e \in OwnedBy(expenses, u) :
                                         DateToString(expenses[e].date) = d }),
               count |-> Cardinality({ e \in OwnedBy(expenses, u) :
                                           DateToString(expenses[e].date) = d })] :
              d \in { DateToString(expenses[e].date) : e \in OwnedBy(expenses, u) } })

\* startDate.setDate(startDate.getDate() - days); $match, $group by day, $sort
trends(u, days) ==
    LET startDate == now - days * TicksPerDay
        matched == { e \in OwnedBy(expenses, u) : expenses[e].date >= startDate }
        of(d) == { e \in matched : DateToString(expenses[e].date) = d }
    IN AscById({ [_id |-> d, total |-> SumAmount(of(d)), count |-> Cardinality(of(d))] :
                     d \in { DateToString(expenses[e].date) : e \in matched } })

\* GET /trends?period=: days = parseInt(period), period defaults to '30'
Trends(p, u, period) ==
    /\ req[p].op = "idle"
    /\ UNCHANGED << store, now, tz >>
    /\ LET days == IF period = NoPeriod THEN DefaultPeriod ELSE period
       IN Send(p, Resp("reports.trends", u, NoId, days, 200, "", trends(u, days)))

(* ---------------------------- specification ----------------------------- *)
\* the instants a client sends as an expense date
DateInputs == { NoDate, now - TicksPerMonth }
SeedFailPoints == { 0, 3 }
\* GET /api/expenses query strings: the defaults, or one category
ListQueryInputs == { [NoQuery EXCEPT !.category = c] : c \in ProbeCats \cup {NoId} }

EmptyStore ==
    /\ users = Empty
    /\ categories = Empty
    /\ expenses = Empty
    /\ counters = [user |-> 0, cat |-> 0, custom |-> 0, exp |-> 0]

\* the categories after ann and then bob have registered
RegisteredCategories ==
    [c \in { CatId(i) : i \in 1..(2 * Len(defaultCategories)) } |->
        IF c[2] <= Len(defaultCategories)
        THEN [name |-> defaultCategories[c[2]].name,
              userId |-> UserId(1), isDefault |-> TRUE]
        ELSE [name |-> defaultCategories[c[2] - Len(defaultCategories)].name,
              userId |-> UserId(2), isDefault |-> TRUE]]

\* the users and categories after ann and then bob have registered
RegisteredUsers ==
    /\ users = [u \in { UserId(1), UserId(2) } |->
                   IF u = UserId(1)
                   THEN [username |-> "ann", email |-> "a@x", monthlyBudget |-> 0]
                   ELSE [username |-> "bob", email |-> "b@x", monthlyBudget |-> 0]]
    /\ categories = RegisteredCategories

\* the store after ann and then bob have registered
RegisteredStore ==
    /\ RegisteredUsers
    /\ expenses = Empty
    /\ counters = [user |-> 2, cat |-> 2 * Len(defaultCategories),
                   custom |-> 0, exp |-> 0]

\* the clock: the first tick of February of year 1
Now0 == TicksPerYear + TicksPerMonth

Quiet ==
    /\ req = [p \in Procs |-> Idle]
    /\ resp = NoResp
    /\ now = Now0
    /\ tz = 0

\* req.body.monthlyBudget of a registration and of a profile update
RegisterBudgetInputs == { NoAmount, TextAmount, Num(0 - 5) }
ProfileBudgetInputs == { NoAmount, TextAmount, Num(0 - 5), Num(200) }

RegisterStepWith(p, budgets) ==
    \/ \E valid \in BOOLEAN, username \in UsernameInputs, email \in EmailInputs,
          monthlyBudget \in budgets :
           RegisterStart(p, valid, username, email, monthlyBudget)
    \/ RegisterCreateUser(p)
    \/ RegisterSeed(p)
    \/ \E k \in SeedFailPoints : RegisterSeedFail(p, k)

\* a registration that sends no monthlyBudget
RegisterStep(p) == RegisterStepWith(p, { NoAmount })

CategoryStep(p) ==
    \/ \E u \in Callers : CategoryList(p, u)
    \/ \E u \in Callers, name \in NameInputs \cup {""} : CategoryCreateStart(p, u, name)
    \/ CategoryCreateInsert(p)
    \/ \E u \in Callers, id \in ProbeCats, name \in NameInputs \cup {NoName, ""} :
           CategoryUpdate(p, u, id, name)
    \/ \E u \in Callers, id \in ProbeCats : CategoryDelete(p, u, id)

ExpenseStep(p) ==
    \/ \E u \in Callers, title \in TitleInputs, amount \in CreateAmountInputs,
          category \in BodyCats, date \in DateInputs :
           ExpenseCreateStart(p, u, title, amount, category, date)
    \/ ExpenseCreateInsert(p)
    \/ \E u \in Callers, id \in ProbeExps : ExpenseGet(p, u, id)
    \/ \E u \in Callers, id \in ProbeExps, amount \in UpdateAmountInputs,
          category \in BodyCats, date \in DateInputs :
           ExpenseUpdateStart(p, u, id, amount, category, date)
    \/ ExpenseUpdateApply(p)
    \/ \E u \in Callers, id \in ProbeExps : ExpenseDelete(p, u, id)
    \/ \E u \in Callers, q \in ListQueryInputs : ExpenseListFind(p, u, q)
    \/ ExpenseListCount(p)

ClearStep(p) ==
    \/ \E u \in Callers : ClearExpenses(p, u)
    \/ ClearCategories(p)

\* Category and expense requests of two registered users, one request at a
\* time, each handler run to its response
Init == RegisteredStore /\ Quiet
Next == CategoryStep("p1") \/ ExpenseStep("p1") \/ ClearStep("p1")
Spec == Init /\ [][Next]_vars

\* expense dates around the ends of year 1, the current year
ReportDates == { TicksPerYear - 1, TicksPerYear, Now0,
                 2 * TicksPerYear - 1, 2 * TicksPerYear }
ReportAmounts == { 100, 300 }
YearInputs == { NoYear, 1, 2 }

\* the expenses a registered user can have created with one of these dates,
\* each in the user's first category
ExpensesDated(dates) ==
    { [title |-> "Lunch", amount |-> a, userId |-> UserId(u), date |-> d,
       category |-> CatId(IF u = 1 THEN 1 ELSE 1 + Len(defaultCategories))] :
          a \in ReportAmounts, d \in dates, u \in {1, 2} }
ReportExpenses == ExpensesDated(ReportDates)

ReportStep(p) ==
    \/ \E u \in Callers, year \in YearInputs : MonthlyChart(p, u, year)
    \/ \E u \in Callers : DashboardMonthly(p, u)
    \/ DashboardYearly(p)
    \/ DashboardBreakdown(p)
    \/ DashboardRecent(p)

\* The reports over the stores two registered users can have built, on a
\* server in any of the time zones
InitReports ==
    /\ RegisteredUsers
    /\ \E n \in 0..MaxReportExpenses :
           /\ expenses \in [{ ExpId(i) : i \in 1..n } -> ReportExpenses]
           /\ counters = [user |-> 2, cat |-> 2 * Len(defaultCategories),
                          custom |-> 0, exp |-> n]
    /\ req = [p \in Procs |-> Idle]
    /\ resp = NoResp
    /\ now = Now0
    /\ tz \in 0..MaxTzOffset
NextReports == ReportStep("p1")
SpecReports == InitReports /\ [][NextReports]_vars

\* expense dates around the start of the current day, month and year
DashboardDates == { Now0 - 3, Now0 - 2, Now0 - 1, Now0 }
BudgetValues == { 0, 200 }

DashboardStep(p) ==
    \/ \E u \in Callers : DashboardMonthly(p, u)
    \/ DashboardYearly(p)
    \/ DashboardBreakdown(p)
    \/ DashboardRecent(p)

\* The dashboard over the stores two registered users can have built, the
\* first having set any monthly budget, at two times of the day
InitDashboard ==
    /\ \E budget \in BudgetValues :
           users = [u \in { UserId(1), UserId(2) } |->
                      IF u = UserId(1)
                      THEN [username |-> "ann", email |-> "a@x", monthlyBudget |-> budget]
                      ELSE [username |-> "bob", email |-> "b@x", monthlyBudget |-> 0]]
    /\ \E n \in 0..MaxReportExpenses :
           /\ expenses \in [{ ExpId(i) : i \in 1..n } ->
                               ExpensesDated(DashboardDates)]
           /\ counters = [user |-> 2, cat |-> 2 * Len(defaultCategories),
                          custom |-> 0, exp |-> n]
    /\ categories = RegisteredCategories
    /\ req = [p \in Procs |-> Idle]
    /\ resp = NoResp
    /\ now \in { Now0, Now0 + 1 }
    /\ tz \in 0..MaxTzOffset
NextDashboard == DashboardStep("p1")
SpecDashboard == InitDashboard /\ [][NextDashboard]_vars

\* the expenses a listed store holds: two of a user's categories, two dates,
\* two amounts, three titles
ListExpenses ==
    { [title |-> x.title, amount |-> x.amount, userId |-> UserId(u), date |-> x.date,
       category |-> CatId(x.cat + (u - 1) * Len(defaultCategories))] :
          u \in {1, 2},
          x \in { [title |-> "Lunch", amount |-> 100, date |-> Now0 - TicksPerMonth, cat |-> 1],
                  [title |-> "Taxi", amount |-> 300, date |-> Now0, cat |-> 1],
                  [title |-> "Team lunch", amount |-> 100, date |-> Now0, cat |-> 2] } }

\* query strings: the defaults, pages, sort keys, and filters
PageInputs == 1..3
LimitInputs == 1..2
ListQueries ==
    { NoQuery }
    \cup { [NoQuery EXCEPT !.page = pg, !.limit = l, !.sortOrder = o] :
               pg \in PageInputs, l \in LimitInputs, o \in { "asc", "desc" } }
    \cup { [NoQuery EXCEPT !.sortBy = f, !.sortOrder = o] :
               f \in { "amount", "userId.x" }, o \in { "asc", "desc" } }
    \cup { [NoQuery EXCEPT !.category = c] :
               c \in { CatId(1), CatId(1 + Len(defaultCategories)), AnyCat } }
    \cup { [NoQuery EXCEPT !.search = x] : x \in { "lunch", ".*" } }
    \cup { [NoQuery EXCEPT !.startDate = Now0], [NoQuery EXCEPT !.endDate = Now0 - 1],
           [NoQuery EXCEPT !.category = AnyCat, !.search = ".*",
                           !.startDate = Now0 - TicksPerYear, !.page = 2, !.limit = 1] }

ListStep(p) ==
    \/ \E u \in Callers, q \in ListQueries : ExpenseListFind(p, u, q)
    \/ ExpenseListCount(p)

\* Listing the stores two registered users can have built
InitList ==
    /\ RegisteredUsers
    /\ \E n \in 0..MaxListExpenses :
           /\ expenses \in [{ ExpId(i) : i \in 1..n } -> ListExpenses]
           /\ counters = [user |-> 2, cat |-> 2 * Len(defaultCategories),
                          custom |-> 0, exp |-> n]
    /\ Quiet
NextList == ListStep("p1")
SpecList == InitList /\ [][NextList]_vars

PeriodInputs == { NoPeriod, 1, 2 }

TrendsStep(p) == \E u \in Callers, period \in PeriodInputs : Trends(p, u, period)

\* The trends over the same stores and times of the day
NextTrends == TrendsStep("p1")
SpecTrends == InitDashboard /\ [][NextTrends]_vars

\* the categories and expenses the clients of the amounts specification name
AmountCats == { CatId(1), CatId(1 + Len(defaultCategories)) }
AmountExps == { e \in ProbeExps : e[2] <= 2 }

AmountStep(p) ==
    \/ \E u \in Callers, amount \in CreateAmountInputs, category \in AmountCats :
           ExpenseCreateStart(p, u, "Lunch", amount, category, NoDate)
    \/ ExpenseCreateInsert(p)
    \/ \E u \in Callers, id \in AmountExps, amount \in UpdateAmountInputs :
           ExpenseUpdateStart(p, u, id, amount, NoId, NoDate)
    \/ ExpenseUpdateApply(p)
    \/ \E u \in Callers : SeedDataStart(p, u)
    \/ SeedDataInsert(p)

\* Everything that writes an expense's amount: create, update, seed-data
NextAmounts == AmountStep("p1")
SpecAmounts == Init /\ [][NextAmounts]_vars

AuthStep(p) ==
    \E route \in ProtectedRoutes, cred \in Credentials : AuthReject(p, route, cred)

\* Requests with every kind of credential, to the category routes
NextAuth == AuthStep("p1") \/ CategoryStep("p1")
SpecAuth == Init /\ [][NextAuth]_vars

InitRegister == EmptyStore /\ Quiet

\* registrations through both flows, with no budget
UsersStep(p) ==
    \/ \E valid \in BOOLEAN, username \in UsernameInputs, email \in EmailInputs :
           RegisterStart(p, valid, username, email, NoAmount)
    \/ RegisterCreateUser(p)
    \/ RegisterSeed(p)
    \/ \E complete \in BOOLEAN : SignupStart(p, complete)
    \/ SignupCreate(p)

\* Two registrations handled at a time, from the empty store
NextUsers == UsersStep("p1") \/ UsersStep("p2")
SpecUsers == InitRegister /\ [][NextUsers]_vars

ProfileStep(p) ==
    \E u \in Callers, monthlyBudget \in ProfileBudgetInputs : ProfileUpdate(p, u, monthlyBudget)

\* Registrations and profile updates, from the empty store
NextProfile == RegisterStepWith("p1", RegisterBudgetInputs) \/ ProfileStep("p1")
SpecProfile == InitRegister /\ [][NextProfile]_vars

OwnersStep(p) ==
    \/ \E u \in Callers, name \in NameInputs :
           \E userId \in Callers \ {u} : CategoryCreateStartBody(p, u, name, userId)
    \/ CategoryCreateInsert(p)
    \/ \E u \in Callers, id \in ProbeCats, name \in NameInputs \cup {NoName} :
           CategoryUpdate(p, u, id, name)
    \/ \E u \in Callers, category \in AmountCats :
           \E userId \in Callers \ {u} :
               ExpenseCreateStartBody(p, u, "Lunch", Num(100), category, NoDate, userId)
    \/ ExpenseCreateInsert(p)
    \/ \E u \in Callers, id \in AmountExps, amount \in { NoAmount, Num(300) },
          category \in AmountCats \cup {NoId} :
           ExpenseUpdateStart(p, u, id, amount, category, NoDate)
    \/ ExpenseUpdateApply(p)
    \/ \E u \in Callers : SeedDataStart(p, u)
    \/ SeedDataInsert(p)

\* Everything that writes a category or an expense, every creation's body
\* carrying the other user's id as userId
NextOwners == OwnersStep("p1")
SpecOwners == Init /\ [][NextOwners]_vars

DashboardRaceStep ==
    \/ DashboardStep("p1")
    \/ \E u \in Callers, category \in AmountCats :
           ExpenseCreateStart("p2", u, "Lunch", Num(100), category, NoDate)
    \/ ExpenseCreateInsert("p2")
    \/ \E u \in Callers, id \in AmountExps, amount \in { NoAmount, Num(300) },
          date \in DateInputs :
           ExpenseUpdateStart("p2", u, id, amount, NoId, date)
    \/ ExpenseUpdateApply("p2")
    \/ \E u \in Callers, id \in AmountExps : ExpenseDelete("p2", u, id)

\* A dashboard request and expense writes handled at the same time
NextDashboardRace == DashboardRaceStep
SpecDashboardRace == Init /\ [][NextDashboardRace]_vars

ReadOnlyStep(p) ==
    \/ DashboardStep(p)
    \/ \E u \in Callers, year \in YearInputs : MonthlyChart(p, u, year)
    \/ \E u \in Callers, period \in PeriodInputs : Trends(p, u, period)

\* The three reports over the stores two registered users can have built
NextReadOnly == ReadOnlyStep("p1")
SpecReadOnly == InitDashboard /\ [][NextReadOnly]_vars

\* expense dates in the month before the current one, in it and after it
BreakdownDates == { Now0 - 1, Now0, Now0 + TicksPerMonth }
\* ann's first default category and the category she created
BreakdownCats == { CatId(1), CatId(2 * Len(defaultCategories) + 1) }

BreakdownStep(p) ==
    \/ \E u \in Callers : DashboardMonthly(p, u)
    \/ DashboardYearly(p)
    \/ DashboardBreakdown(p)
    \/ DashboardRecent(p)
    \/ \E u \in Callers, id \in ProbeCats : CategoryDelete(p, u, id)

\* The dashboard and category deletes, one request at a time, over the stores
\* ann can have built after creating the category Travel
InitBreakdown ==
    /\ users = [u \in { UserId(1), UserId(2) } |->
                   IF u = UserId(1)
                   THEN [username |-> "ann", email |-> "a@x", monthlyBudget |-> 0]
                   ELSE [username |-> "bob", email |-> "b@x", monthlyBudget |-> 0]]
    /\ categories = With(RegisteredCategories, CatId(2 * Len(defaultCategories) + 1),
                         [name |-> "Travel", userId |-> UserId(1), isDefault |-> FALSE])
    /\ \E n \in 0..MaxReportExpenses :
           /\ expenses \in [{ ExpId(i) : i \in 1..n } ->
                  { [title |-> "Lunch", amount |-> a, userId |-> UserId(1),
                     date |-> d, category |-> c] :
                        a \in ReportAmounts, d \in BreakdownDates, c \in BreakdownCats }]
           /\ counters = [user |-> 2, cat |-> 2 * Len(defaultCategories) + 1,
                          custom |-> 1, exp |-> n]
    /\ Quiet
NextBreakdown == BreakdownStep("p1")
SpecBreakdown == InitBreakdown /\ [][NextBreakdown]_vars

CategoryUpdateStep(p) ==
    \/ \E u \in Callers, name \in NameInputs : CategoryCreateStart(p, u, name)
    \/ CategoryCreateInsert(p)
    \/ \E u \in Callers, id \in ProbeCats \cup {MalformedId},
          name \in NameInputs \cup {NoName, ""} :
           CategoryUpdate(p, u, id, name)

\* Category creations and updates, the :id being any string
NextCategoryUpdate == CategoryUpdateStep("p1")
SpecCategoryUpdate == Init /\ [][NextCategoryUpdate]_vars

RaceStep ==
    \/ \E u \in Callers, category \in ProbeCats :
           ExpenseCreateStart("p1", u, "Lunch", Num(100), category, NoDate)
    \/ ExpenseCreateInsert("p1")
    \/ \E u \in Callers, name \in NameInputs : CategoryCreateStart("p2", u, name)
    \/ CategoryCreateInsert("p2")
    \/ \E u \in Callers, id \in ProbeCats : CategoryDelete("p2", u, id)

\* An expense creation and category requests handled at the same time
NextRace == RaceStep
SpecRace == Init /\ [][NextRace]_vars

\* Registration from the empty store, followed by category requests
NextRegister == RegisterStep("p1") \/ CategoryStep("p1")
SpecRegister == InitRegister /\ [][NextRegister]_vars

(* ------------------------------- claims --------------------------------- *)
\* document id of collection coll exists and belongs to user u / to another user
Owns(u, coll, id) == id \in DOMAIN coll /\ coll[id].userId = u
Foreign(u, coll, id) == id \in DOMAIN coll /\ coll[id].userId # u
\* user u has a category called name
HasName(u, name) ==
    \E c \in DOMAIN categories : categories[c].userId = u /\ categories[c].name = name

CategoryIdOps == { "category.update", "category.delete" }
ExpenseIdOps == { "expense.get", "expense.update", "expense.delete" }

\* the lists of a response hold only documents of its caller
ListsOwnOnly(r) ==
    /\ r.op = "category.list" =>
           \A i \in DOMAIN r.out : r.out[i].doc.userId = r.caller
    /\ r.op = "expense.list" =>
           \A i \in DOMAIN r.out.expenses : r.out.expenses[i].doc.userId = r.caller

C2_DefaultsKept ==
    [][ \A c \in DOMAIN categories :
            categories[c].isDefault =>
                c \in DOMAIN categories' /\ categories'[c].isDefault ]_vars

\* its owner's DELETE of a default category was answered 404
C2_Witness ==
    /\ resp.op = "category.delete" /\ resp.status = 404
    /\ Owns(resp.caller, categories, resp.id)
    /\ categories[resp.id].isDefault

\* C5 as stated: an expense create, or an update with a category in its body,
\* whose category is not the identifier of one of the caller's categories is
\* answered 400 Invalid category and writes no expense.
C5_InvalidCategoryAlways ==
    [][ LET r == resp' IN
        (/\ r.op \in { "expense.create", "expense.update" }
         /\ r.arg # NoId /\ ~Owns(r.caller, categories, r.arg)) =>
            /\ r.status = 400 /\ r.msg = "Invalid category"
            /\ expenses' = expenses ]_vars

\* C6 as stated: every expense's category is an existing category of the
\* expense's owner.
C6_CategoryResolves ==
    \A e \in DOMAIN expenses :
        Owns(expenses[e].userId, categories, expenses[e].category)

\* C7: a category create is answered 400 "already exists", and writes
\* nothing, exactly when the caller has a category of that name; a category
\* of that name of another user plays no part.
C7_DuplicateName ==
    [][ LET r == resp' IN
        r.op = "category.create" =>
            /\ HasName(r.caller, r.arg) =>
                   /\ r.status = 400
                   /\ r.msg = "Category with this name already exists"
                   /\ categories' = categories
            /\ r.msg = "Category with this name already exists" =>
                   HasName(r.caller, r.arg) ]_vars

\* a create was refused for a name the caller already has
C7_Witness ==
    /\ resp.op = "category.create" /\ resp.status = 400
    /\ resp.msg = "Category with this name already exists"
    /\ HasName(resp.caller, resp.arg)

\* C8 as stated: no user has two categories of the same name.
C8_UniqueNames ==
    \A c, d \in DOMAIN categories :
        (c # d /\ categories[c].userId = categories[d].userId) =>
            categories[c].name # categories[d].name

\* the categories of user u
CategoriesOf(u) == { c \in DOMAIN categories : categories[c].userId = u }
DefaultNames == { "Food & Dining", "Transportation", "Shopping", "Entertainment",
                  "Bills & Utilities", "Healthcare", "Education", "Other" }

\* C3: right after a register answered 201, the new user exists and its
\* categories are exactly eight, all with isDefault = true, one of each of
\* the eight default names.
C3_RegisterSeedsEight ==
    (resp.op = "register" /\ resp.status = 201) =>
        /\ resp.id \in DOMAIN users
        /\ Cardinality(CategoriesOf(resp.id)) = 8
        /\ \A c \in CategoriesOf(resp.id) : categories[c].isDefault
        /\ { categories[c].name : c \in CategoriesOf(resp.id) } = DefaultNames

\* a second user has just registered while the first has a ninth category
C3_Witness ==
    /\ resp.op = "register" /\ resp.status = 201
    /\ \E u \in DOMAIN users : Cardinality(CategoriesOf(u)) = 9

\* C4 as stated: whenever no registration is being handled, every persisted
\* user has its eight default categories; so a register that failed (500)
\* left no user behind.
C4_SeedingAtomic ==
    (\A p \in Procs : req[p].op # "register") =>
        /\ \A u \in DOMAIN users :
               Cardinality({ c \in CategoriesOf(u) : categories[c].isDefault }) = 8
        /\ (resp.op = "register" /\ resp.status = 500) => resp.id \notin DOMAIN users

(* ------------------------------- reports -------------------------------- *)
ChartLabels == << "Jan", "Feb", "Mar", "Apr", "May", "Jun",
                  "Jul", "Aug", "Sep", "Oct", "Nov", "Dec" >>

RECURSIVE SumSeq(_)
SumSeq(s) == IF s = << >> THEN 0 ELSE Head(s) + SumSeq(Tail(s))

\* the expenses of u dated in year y, read on the server's clock or in UTC
DatedInYear(u, y, local) ==
    { e \in DOMAIN expenses :
          /\ expenses[e].userId = u
          /\ IF local THEN getFullYear(expenses[e].date) = y
             ELSE expenses[e].date \div TicksPerYear = y }

\* those of them dated in month i (1 = January)
DatedInMonth(u, y, i, local) ==
    { e \in DatedInYear(u, y, local) :
          IF local THEN getMonth(expenses[e].date) + 1 = i
          ELSE UtcMonth(expenses[e].date) = i }

\* C9 as stated: a monthly chart answered for year Y has twelve entries
\* labelled Jan..Dec in order, entry i carrying the sum and the number of the
\* caller's expenses dated in month i of Y (0 and 0 when there is none), the
\* dates being read either all on the server's clock or all in UTC.
C9_ChartByCalendarMonth ==
    resp.op = "reports.monthly-chart" =>
        \E local \in BOOLEAN :
            /\ Len(resp.out) = 12
            /\ \A i \in 1..12 :
                   resp.out[i] =
                       [month |-> ChartLabels[i],
                        amount |-> SumAmount(DatedInMonth(resp.caller, resp.arg, i, local)),
                        count |-> Cardinality(DatedInMonth(resp.caller, resp.arg, i, local))]

\* C10 as stated: the amounts of a chart answered for year Y sum to the total
\* of the caller's expenses of Y, and the yearly total and count a dashboard
\* answers are the sums of the amounts and of the counts of the current
\* year's chart over the same store.
C10_ChartSumsToYearly ==
    /\ resp.op = "reports.monthly-chart" =>
           \E local \in BOOLEAN :
               SumSeq([i \in 1..Len(resp.out) |-> resp.out[i].amount])
                   = SumAmount(DatedInYear(resp.caller, resp.arg, local))
    /\ resp.op = "reports.dashboard" =>
           LET chart == chartData(resp.caller, getFullYear(now))
           IN /\ resp.out.yearly.total = SumSeq([i \in 1..Len(chart) |-> chart[i].amount])
              /\ resp.out.yearly.count = SumSeq([i \in 1..Len(chart) |-> chart[i].count])

(* ------------------------------ dashboard ------------------------------- *)
\* the first instant of the current month and of the current year, on the
\* server's clock
StartOfMonth == now - ((now + tz) % TicksPerMonth)
StartOfYear == now - ((now + tz) % TicksPerYear)

\* the expenses of u dated at or after an instant
DatedSince(u, start) ==
    { e \in DOMAIN expenses : expenses[e].userId = u /\ expenses[e].date >= start }

\* C11: the remaining budget a dashboard answers is the caller's monthly
\* budget minus the monthly total it answers, also when that is negative.
C11_RemainingExact ==
    resp.op = "reports.dashboard" =>
        /\ resp.out.monthly.budget = users[resp.caller].monthlyBudget
        /\ resp.out.monthly.remaining
               = users[resp.caller].monthlyBudget - resp.out.monthly.total

\* a dashboard answered a negative remaining budget
C11_Witness ==
    /\ resp.op = "reports.dashboard"
    /\ resp.out.monthly.budget > 0
    /\ resp.out.monthly.remaining < 0

\* C12: the monthly total and count a dashboard answers are the sum and the
\* number of the caller's expenses dated at or after the first instant of the
\* current month, the yearly ones those dated at or after the first instant of
\* the current year; with no such expense they are 0 and 0.
C12_DashboardTotals ==
    resp.op = "reports.dashboard" =>
        /\ resp.out.monthly.total = SumAmount(DatedSince(resp.caller, StartOfMonth))
        /\ resp.out.monthly.count = Cardinality(DatedSince(resp.caller, StartOfMonth))
        /\ resp.out.yearly.total = SumAmount(DatedSince(resp.caller, StartOfYear))
        /\ resp.out.yearly.count = Cardinality(DatedSince(resp.caller, StartOfYear))

\* a dashboard counted one expense in the month and a second earlier in the
\* year
C12_Witness ==
    /\ resp.op = "reports.dashboard"
    /\ resp.out.monthly.count = 1 /\ resp.out.yearly.count = 2

(* ------------------------------ expense list ---------------------------- *)
\* n / d rounded up
Ceiling(n, d) == CHOOSE k \in 0..n : k * d >= n /\ (k = 0 \/ (k - 1) * d < n)

\* C13: a list answered for page pg >= 1 and size L >= 1 over the N expenses
\* matching the caller's filter has total N, totalPages ceil(N / L), and holds
\* the min(L, max(0, N - (pg - 1) * L)) records at positions (pg - 1) * L + 1
\* and on of the sorted matching sequence.
C13_Pagination ==
    [][ \A p \in Procs :
          (req[p].op = "expense.list" /\ resp'.op = "expense.list") =>
              LET q == req[p].q
                  found == Matching(req[p].caller, q)
                  N == Cardinality(found)
                  sorted == SortBy(found, q.sortBy, q.sortOrder)
                  rest == N - (q.page - 1) * q.limit
                  shown == IF rest < 0 THEN 0 ELSE IF rest < q.limit THEN rest ELSE q.limit
              IN (q.page >= 1 /\ q.limit >= 1) =>
                     /\ resp'.out.total = N
                     /\ resp'.out.totalPages = Ceiling(N, q.limit)
                     /\ resp'.out.currentPage = q.page
                     /\ Len(resp'.out.expenses) = shown
                     /\ \A i \in 1..shown :
                            resp'.out.expenses[i] = sorted[(q.page - 1) * q.limit + i] ]_vars

\* page 2 of size 2 of three matching expenses was answered: one record
C13_Witness ==
    /\ resp.op = "expense.list"
    /\ resp.out.currentPage = 2 /\ resp.out.totalPages = 2
    /\ resp.out.total = 3 /\ Len(resp.out.expenses) = 1

\* expense e passes the filters of query q
PassesFilters(e, q) ==
    /\ q.category \in DOMAIN categories => expenses[e].category = q.category
    /\ q.startDate # NoDate => expenses[e].date >= q.startDate
    /\ q.endDate # NoDate => expenses[e].date <= q.endDate
    /\ q.search = "lunch" => expenses[e].title \in { "Lunch", "Team lunch" }

\* C15: whatever the query parameters, every expense a list returns is the
\* caller's, and its total is the number of the caller's expenses that pass
\* the filters.
C15_ListOwnedOnly ==
    [][ \A p \in Procs :
          (req[p].op = "expense.list" /\ resp'.op = "expense.list") =>
              /\ \A i \in DOMAIN resp'.out.expenses :
                     resp'.out.expenses[i].doc.userId = req[p].caller
              /\ resp'.out.total =
                     Cardinality({ e \in DOMAIN expenses :
                                       /\ expenses[e].userId = req[p].caller
                                       /\ PassesFilters(e, req[p].q) }) ]_vars

\* a list with an operator as its category filter was answered while the
\* other user had expenses
C15_Witness ==
    /\ resp.op = "expense.list" /\ resp.arg = AnyCat
    /\ resp.out.total >= 1
    /\ \E e \in DOMAIN expenses : expenses[e].userId # resp.caller

(* -------------------------------- trends -------------------------------- *)
\* the calendar day (UTC) of an instant, counted from the start of year 0
DayNumber(t) == t \div TicksPerDay

\* the expenses of u in the window of the last `days` days
InWindow(u, days) ==
    { e \in DOMAIN expenses :
          expenses[e].userId = u /\ expenses[e].date >= now - days * TicksPerDay }

\* C14: a trends answer for a period of P days has one entry for each calendar
\* day on which the caller has an expense dated at or after now - P days, and
\* no other entry; an entry carries the sum and the number of those expenses of
\* its day, and the entries are in ascending order of day.
C14_TrendsNotGapFilled ==
    resp.op = "reports.trends" =>
        LET window == InWindow(resp.caller, resp.arg)
            days == { DayNumber(expenses[e].date) : e \in window }
            on(k) == { e \in window : DayNumber(expenses[e].date) = k }
        IN /\ Len(resp.out) = Cardinality(days)
           /\ \A i \in DOMAIN resp.out :
                  \E k \in days :
                      /\ resp.out[i]._id = DateToString(k * TicksPerDay)
                      /\ resp.out[i].total = SumAmount(on(k))
                      /\ resp.out[i].count = Cardinality(on(k))
                      /\ Cardinality({ j \in days : j < k }) = i - 1

\* a trends answer of one entry, the caller having an expense before the
\* window as well
C14_Witness ==
    /\ resp.op = "reports.trends" /\ resp.arg = 1
    /\ Len(resp.out) = 1
    /\ \E e \in DOMAIN expenses :
           /\ expenses[e].userId = resp.caller
           /\ expenses[e].date < now - resp.arg * TicksPerDay

(* -------------------------------- amounts ------------------------------- *)
\* C16: every persisted expense has an amount that is at least 0.
C16_AmountNonNegative ==
    \A e \in DOMAIN expenses : expenses[e].amount >= 0

\* an update of one of its expenses was refused to its owner after the sample
\* data was seeded
C16_Witness ==
    /\ resp.op = "expense.update" /\ resp.status = 500
    /\ Owns(resp.caller, expenses, resp.id)
    /\ Cardinality(DOMAIN expenses) >= Len(sampleExpenses)

\* C17 as stated: an expense create whose amount is not a number, or is
\* negative, is refused by the input validation, before any store read: no
\* such request is ever past its validation, waiting for Expense.create.
C17_BadAmountRefusedByValidation ==
    \A p \in Procs :
        req[p].op = "expense.create" =>
            isNumeric(req[p].amount) /\ req[p].amount.val >= 0

(* --------------------------------- auth --------------------------------- *)
\* C18: a handler behind auth works only for a caller that is a persisted
\* user: every request in flight and every response of such a handler has one;
\* a request auth turns away is answered 401 and the step writes nothing.
C18_AuthBeforeHandlers ==
    [][ /\ \A p \in Procs :
              req'[p].op \in ProtectedRoutes => req'[p].caller \in DOMAIN users
        /\ resp'.op \in ProtectedRoutes => resp'.caller \in DOMAIN users
        /\ resp'.op = "auth" => (resp'.status = 401 /\ store' = store)
        /\ resp'.status = 401 => store' = store ]_vars

\* a request with a well-signed token of a user that does not exist was
\* answered 401
C18_Witness ==
    /\ resp.op = "auth" /\ resp.status = 401
    /\ resp.arg = Token("header", GhostUser)
    /\ resp.out = << "category.create" >>

(* --------------------------------- users -------------------------------- *)
\* no two users share a username, and no two an email
UniqueUsers ==
    \A u, v \in DOMAIN users :
        u # v => /\ users[u].username # users[v].username
                 /\ Lower(users[u].email) # Lower(users[v].email)

\* a username or an email (in any case) that a persisted user has
Taken(username, email) ==
    \E u \in DOMAIN users :
        users[u].username = username \/ Lower(users[u].email) = Lower(email)

\* C19: no two persisted users ever share a username or a case-normalized
\* email; a registration whose username or email is taken when its user is to
\* be created fails, and a registration that fails at its checks or at its
\* user's creation writes neither a user nor a category.
C19_UniqueUsers ==
    [][ /\ UniqueUsers'
        /\ \A p \in Procs :
               (/\ req[p].pc = "create" /\ req'[p].op = "idle"
                /\ req[p].op = "signup" \/ Taken(req[p].name, req[p].email)) =>
                   /\ resp'.status \in { 400, 409, 500 }
                   /\ users' = users /\ categories' = categories
        /\ (resp'.op \in { "register", "signup" } /\ resp'.status \in { 400, 409 }) =>
               (users' = users /\ categories' = categories) ]_vars

\* of two registrations of one username in flight together, the second was
\* refused at the creation of its user
C19_Witness ==
    /\ resp.op = "register" /\ resp.status = 500 /\ resp.id = NoId
    /\ users # Empty

\* C20 as stated: every persisted user's monthlyBudget is at least 0.
C20_BudgetNonNegative ==
    \A u \in DOMAIN users : users[u].monthlyBudget >= 0

(* ------------------------- delete / create race ------------------------- *)
\* C21: the expense creation's category check and its insert are two store
\* operations. A category delete that lands while a creation naming that
\* category waits between them answers 200, and the insert, whether or not
\* the category is still there, answers 201 and persists the expense with
\* that category.
C21_DeleteBetweenCheckAndInsert ==
    [][ /\ \A p \in Procs :
               (/\ req[p].op = "expense.create" /\ req[p].pc = "insert"
                /\ req'[p].op = "idle") =>
                   /\ resp'.op = "expense.create" /\ resp'.status = 201
                   /\ resp'.id \in DOMAIN expenses' \ DOMAIN expenses
                   /\ expenses'[resp'.id].category = req[p].category
                   /\ expenses'[resp'.id].userId = req[p].caller
        /\ (/\ resp'.op = "category.delete"
            /\ Owns(resp'.caller, categories, resp'.id)
            /\ ~categories[resp'.id].isDefault) =>
               (resp'.status = 200 /\ resp'.id \notin DOMAIN categories') ]_vars

\* the creation has just answered 201 for an expense whose category was
\* deleted after the creation's category check
C21_Witness ==
    /\ resp.op = "expense.create" /\ resp.status = 201
    /\ resp.id \in DOMAIN expenses
    /\ expenses[resp.id].category \notin DOMAIN categories
    /\ expenses[resp.id].userId = resp.caller

(* ---------------------------- category update -------------------------- *)
\* C22 as stated: a category update of a category the caller owns changes at
\* most the name of that one category (never its isDefault or its userId, and
\* no other category); an update that names no category the caller owns is
\* answered 404 and changes nothing.
C22_UpdateFrame ==
    [][ resp'.op = "category.update" =>
            IF Owns(resp'.caller, categories, resp'.id)
            THEN /\ DOMAIN categories' = DOMAIN categories
                 /\ \A c \in DOMAIN categories :
                        IF c = resp'.id
                        THEN /\ categories'[c].isDefault = categories[c].isDefault
                             /\ categories'[c].userId = categories[c].userId
                        ELSE categories'[c] = categories[c]
            ELSE resp'.status = 404 /\ categories' = categories ]_vars

(* -------------------------- category breakdown -------------------------- *)
\* the expenses of u dated in the current month of the server's clock
DatedThisMonth(u) ==
    { e \in DatedSince(u, StartOfMonth) : expenses[e].date < StartOfMonth + TicksPerMonth }

\* C23 as stated: the category breakdown of a dashboard has exactly one entry
\* per category in which the caller has an expense dated in the current month,
\* with the sum and the number of those expenses and the category's name, in
\* descending order of total; the entries' totals sum to monthly.total.
C23_BreakdownPerCategory ==
    resp.op = "reports.dashboard" =>
        LET b == resp.out.categoryBreakdown
            M == DatedThisMonth(resp.caller)
            In(c) == { e \in M : expenses[e].category = c }
        IN /\ { b[i]._id : i \in DOMAIN b } = { expenses[e].category : e \in M }
           /\ \A i, j \in DOMAIN b : i # j => b[i]._id # b[j]._id
           /\ \A i \in DOMAIN b :
                  /\ b[i].total = SumAmount(In(b[i]._id))
                  /\ b[i].count = Cardinality(In(b[i]._id))
                  /\ b[i]._id \in DOMAIN categories
                  /\ b[i].name = categories[b[i]._id].name
           /\ \A i, j \in DOMAIN b : i < j => b[i].total >= b[j].total
           /\ SumSeq([i \in DOMAIN b |-> b[i].total]) = resp.out.monthly.total

(* ------------------------- reports: frame and scope --------------------- *)
\* the elements of a sequence
Range(s) == { s[i] : i \in DOMAIN s }

ReportOps == { "reports.dashboard", "reports.monthly-chart", "reports.trends" }

\* the report just answered is what the caller's own user record, own
\* expenses and the categories these name give
ScopedResult ==
    LET u == resp.caller
        own == { e \in DOMAIN expenses : expenses[e].userId = u }
        month == { e \in own : expenses[e].date >= StartOfMonth }
        year == { e \in own : expenses[e].date >= StartOfYear }
    IN /\ resp.op = "reports.dashboard" =>
              /\ resp.out.monthly = [total |-> SumAmount(month),
                                     count |-> Cardinality(month),
                                     budget |-> users[u].monthlyBudget,
                                     remaining |-> users[u].monthlyBudget - SumAmount(month)]
              /\ resp.out.yearly = [total |-> SumAmount(year), count |-> Cardinality(year)]
              /\ { g._id : g \in Range(resp.out.categoryBreakdown) }
                     = { expenses[e].category : e \in month } \cap DOMAIN categories
              /\ \A g \in Range(resp.out.categoryBreakdown) :
                     LET sel == { e \in month : expenses[e].category = g._id }
                     IN /\ g.total = SumAmount(sel) /\ g.count = Cardinality(sel)
                        /\ g.name = categories[g._id].name
              /\ { x._id : x \in Range(resp.out.recentExpenses) } \subseteq own
              /\ Len(resp.out.recentExpenses)
                     = IF Cardinality(own) < RecentLimit THEN Cardinality(own)
                       ELSE RecentLimit
       /\ resp.op = "reports.monthly-chart" =>
              \A i \in DOMAIN resp.out :
                  LET sel == { e \in own :
                                  /\ expenses[e].date >= LocalDate(resp.arg, 0)
                                  /\ expenses[e].date < LocalDate(resp.arg + 1, 0)
                                  /\ UtcMonth(expenses[e].date) = i }
                  IN /\ resp.out[i].amount = SumAmount(sel)
                     /\ resp.out[i].count = Cardinality(sel)
       /\ resp.op = "reports.trends" =>
              LET window == { e \in own : expenses[e].date >= now - resp.arg * TicksPerDay }
              IN /\ { g._id : g \in Range(resp.out) }
                        = { DateToString(expenses[e].date) : e \in window }
                 /\ \A g \in Range(resp.out) :
                        LET sel == { e \in window : DateToString(expenses[e].date) = g._id }
                        IN g.total = SumAmount(sel) /\ g.count = Cardinality(sel)

\* C24: a step of a dashboard, monthly-chart or trends request leaves the
\* users, categories and expenses unchanged, and the report it answers is
\* the one computed from the caller's own user record, the caller's own
\* expenses and the categories those expenses name: other users' records do
\* not enter it.
C24_ReportsReadOnlyScoped ==
    [][ ((\E p \in Procs : req[p].op \in ReportOps) \/ resp'.op \in ReportOps) =>
            /\ users' = users /\ categories' = categories /\ expenses' = expenses
            /\ resp'.op \in ReportOps => ScopedResult' ]_vars

\* a dashboard that counted the caller's one expense of the month while
\* another user has an expense in the month too
C24_Witness ==
    /\ resp.op = "reports.dashboard"
    /\ resp.out.monthly.count = 1
    /\ \E e \in DOMAIN expenses :
           expenses[e].userId # resp.caller /\ expenses[e].date >= StartOfMonth

(* ------------------------ dashboard under writes ------------------------ *)
\* C25 as stated: in every dashboard answer the monthly total is at most the
\* yearly total and the monthly count at most the yearly count, also when
\* expense writes of the caller land between the handler's aggregate queries.
C25_MonthlyWithinYearly ==
    resp.op = "reports.dashboard" =>
        /\ resp.out.monthly.total <= resp.out.yearly.total
        /\ resp.out.monthly.count <= resp.out.yearly.count

(* ------------------------------- ownership ------------------------------ *)
\* C26: no step changes the userId of a category or an expense that exists,
\* and a category or an expense a step creates is owned by the caller of the
\* request the step answers, whatever userId the request's body carried.
C26_OwnerFixed ==
    [][ /\ \A c \in DOMAIN categories \cap DOMAIN categories' :
               categories'[c].userId = categories[c].userId
        /\ \A e \in DOMAIN expenses \cap DOMAIN expenses' :
               expenses'[e].userId = expenses[e].userId
        /\ \A c \in DOMAIN categories' \ DOMAIN categories :
               resp'.caller \in DOMAIN users /\ categories'[c].userId = resp'.caller
        /\ \A e \in DOMAIN expenses' \ DOMAIN expenses :
               resp'.caller \in DOMAIN users /\ expenses'[e].userId = resp'.caller ]_vars

\* an expense creation whose body named the other user as userId was
\* answered 201, the expense owned by the caller, after a category creation
\* of the same kind by the same caller
C26_Witness ==
    /\ resp.op = "expense.create" /\ resp.status = 201
    /\ expenses[resp.id].userId = resp.caller
    /\ \E c \in DOMAIN categories :
           /\ categories[c].userId = resp.caller
           /\ categories[c].name \notin { defaultCategories[k].name :
                                             k \in DOMAIN defaultCategories }

=============================================================================
